---------------------------- MODULE Spec2Model ----------------------------
(***************************************************************************)
(* Model of nano-banana-pro/scripts: the matting engine of transparency.py *)
(* (extract_alpha_difference_matting, background_is_black) and the two     *)
(* acquisition controllers, generate_transparent_image (transparency.py)   *)
(* and the --transparent path of main (generate.py).                       *)
(***************************************************************************)
EXTENDS Integers, Sequences, FiniteSets, TLC

VARIABLES
    responses,  \* the provider's answers so far: [white, black], black a sequence
    lib,        \* generate_transparent_image: its locals, position and calls made
    cli,        \* main of generate.py: its locals, position and calls made
    call,       \* a direct call of a matting-engine function: its arguments
    ret         \* and what that call returned

vars == <<responses, lib, cli, call, ret>>

\* Python's None: a value that is no image and no sequence
None == [none |-> TRUE]

(***************************************************************************)
(* Bounds of the model.                                                    *)
(***************************************************************************)
\* largest width and height of the images drawn as inputs
MaxDim == 3
\* largest max_black_attempts the library function is called with
MaxBlackAttempts == 5

(***************************************************************************)
(* Images.  A PIL image is its mode, its size and its rows of pixels, as   *)
(* in the numpy array made of it: getpixel((x, y)) is array[y][x].         *)
(***************************************************************************)
Black == <<0, 0, 0>>
White == <<255, 255, 255>>
Gray == <<128, 128, 128>>
Subject == <<200, 50, 50>>
Mean20 == <<20, 20, 20>>
Mean21 == <<21, 21, 21>>
Sum61 == <<20, 20, 21>>

RECURSIVE Repeat(_, _)
Repeat(v, n) == IF n = 0 THEN <<>> ELSE Append(Repeat(v, n - 1), v)

Canvas(mode, w, h, c) ==
    [mode |-> mode, w |-> w, h |-> h, px |-> Repeat(Repeat(c, w), h)]

Pixel(img, x, y) == img.px[y + 1][x + 1]

WithPixel(img, x, y, c) == [img EXCEPT !.px[y + 1][x + 1] = c]

\* solid RGB canvases of every size up to MaxDim with at most one pixel recoloured
OnePixelImages(palette) ==
    { WithPixel(Canvas("RGB", t[1], t[2], t[5]), t[3], t[4], t[6]) :
        t \in { u \in (1..MaxDim) \X (1..MaxDim) \X (0..(MaxDim - 1))
                      \X (0..(MaxDim - 1)) \X palette \X palette :
                  u[3] < u[1] /\ u[4] < u[2] } }

\* Image.convert('RGB'): an RGBA pixel loses its alpha, an RGB pixel is kept
ConvertRGB(img) ==
    [mode |-> "RGB", w |-> img.w, h |-> img.h,
     px |-> [y \in 1..img.h |-> [x \in 1..img.w |-> SubSeq(img.px[y][x], 1, 3)]]]

(***************************************************************************)
(* background_is_black.  (r + g + b) / 3 is a float division and threshold *)
(* an int: the quotient of an integer below 766 by 3 exceeds the integer   *)
(* threshold exactly when r + g + b exceeds 3 * threshold.                 *)
(***************************************************************************)
DefaultThreshold == 20

\* CornerTooBright with >= for >: a mean equal to the threshold fails
CornerTooBrightInclusive(pixel, threshold) ==
    pixel[1] + pixel[2] + pixel[3] >= 3 * threshold

CornerTooBright(pixel, threshold) ==
    pixel[1] + pixel[2] + pixel[3] > 3 * threshold

Corners(w, h) == <<<<0, 0>>, <<w - 1, 0>>, <<0, h - 1>>, <<w - 1, h - 1>>>>

background_is_black(image, threshold) ==
    LET rgb == ConvertRGB(image)
        corners == Corners(rgb.w, rgb.h)
    IN  \A i \in 1..4 :
            ~CornerTooBright(Pixel(rgb, corners[i][1], corners[i][2]), threshold)

(***************************************************************************)
(* numpy float32 arithmetic, as far as the matting function uses it.  A    *)
(* float32 >= 0 is <<m, e>>, standing for m * 2^e with 2^23 <= m < 2^24,   *)
(* or <<0, 0>> for 0.0; every operation rounds to nearest, ties to even.   *)
(***************************************************************************)
RECURSIVE Pow2(_)
Pow2(n) == IF n = 0 THEN 1 ELSE 2 * Pow2(n - 1)

Two23 == Pow2(23)
Two24 == Pow2(24)

F32Zero == <<0, 0>>
F32One == <<Two23, -23>>

\* the float32 nearest to the literal 0.01 (bits 0x3C23D70A)
F32Hundredth == <<10737418, -30>>

\* an integer 0 < k < 2^24 times 2^e, which is exact in float32
RECURSIVE F32Exact(_, _)
F32Exact(k, e) ==
    IF k = 0 THEN F32Zero
    ELSE IF k < Two23 THEN F32Exact(2 * k, e - 1)
    ELSE <<k, e>>

\* m25 * 2^e with 2^24 <= m25 < 2^25, plus a nonzero rest below it if sticky
F32Round(m25, sticky, e) ==
    LET mant == m25 \div 2
        up == (m25 % 2 = 1) /\ (sticky \/ mant % 2 = 1)
        m == IF up THEN mant + 1 ELSE mant
    IN  IF m = Two24 THEN <<Two23, e + 2>> ELSE <<m, e + 1>>

F32Less(x, y) ==
    IF x[1] = 0 THEN y[1] # 0
    ELSE IF y[1] = 0 THEN FALSE
    ELSE x[2] < y[2] \/ (x[2] = y[2] /\ x[1] < y[1])

RECURSIVE Isqrt(_)
Isqrt(n) ==
    IF n = 0 THEN 0
    ELSE LET r == 2 * Isqrt(n \div 4)
         IN  IF (r + 1) * (r + 1) <= n THEN r + 1 ELSE r

\* further bits of a square root: m = floor(sqrt(n) * 2^k), rest = n * 4^k - m^2
RECURSIVE SqrtBits(_, _, _)
SqrtBits(m, rest, k) ==
    IF m >= Two24 THEN F32Round(m, rest # 0, -k)
    ELSE IF 4 * rest >= 4 * m + 1
         THEN SqrtBits(2 * m + 1, 4 * rest - (4 * m + 1), k + 1)
         ELSE SqrtBits(2 * m, 4 * rest, k + 1)

\* np.sqrt of a float32 holding the integer n (0 <= n < 2^24)
F32Sqrt(n) ==
    IF n = 0 THEN F32Zero
    ELSE LET r == Isqrt(n) IN SqrtBits(r, n - r * r, 0)

\* further bits of a quotient: q = floor(num / my) so far, rest the remainder
RECURSIVE DivBits(_, _, _, _)
DivBits(q, rest, my, e) ==
    IF q >= Two24 THEN F32Round(q, rest # 0, e)
    ELSE IF 2 * rest >= my
         THEN DivBits(2 * q + 1, 2 * rest - my, my, e - 1)
         ELSE DivBits(2 * q, 2 * rest, my, e - 1)

\* x / y in float32, y # 0
F32Div(x, y) ==
    IF x[1] = 0 THEN F32Zero
    ELSE IF x[1] >= y[1]
         THEN DivBits(1, x[1] - y[1], y[1], x[2] - y[2])
         ELSE DivBits(0, x[1], y[1], x[2] - y[2])

\* 1.0 - q in float32, for 0 <= q <= 1
F32OneMinus(q) ==
    IF q[1] = 0 THEN F32One
    ELSE IF q = F32One THEN F32Zero
    ELSE LET s == -24 - q[2]
             unit == Pow2(s)
             qhi == q[1] \div unit
             rest == q[1] % unit
             hi == Two24 - qhi
             lo == hi - 1
             k == IF 2 * rest < unit THEN hi
                  ELSE IF 2 * rest > unit THEN lo
                  ELSE IF hi % 2 = 0 THEN hi ELSE lo
         IN  IF k = Two24 THEN F32One ELSE F32Exact(k, -24)

\* x * 255 in float32; m * 255 = hi * 256 + lo has 31 or 32 bits
F32Times255(x) ==
    IF x[1] = 0 THEN F32Zero
    ELSE LET low == (x[1] % 256) * 255
             hi == (x[1] \div 256) * 255 + low \div 256
             lo == low % 256
         IN  IF hi >= Two23
             THEN F32Round(2 * hi + lo \div 128, lo % 128 # 0, x[2] + 7)
             ELSE F32Round(4 * hi + lo \div 64, lo % 64 # 0, x[2] + 6)

\* np.clip(x, 0, top) of a float32 >= 0
F32Clip(x, top) == IF F32Less(top, x) THEN top ELSE x

\* astype(np.uint8) of a float32 in [0, 256): the fraction is dropped
F32ToUint8(x) ==
    IF x[1] = 0 \/ x[2] <= -24 THEN 0
    ELSE IF x[2] >= 0 THEN x[1] * Pow2(x[2])
    ELSE x[1] \div Pow2(-x[2])

(***************************************************************************)
(* extract_alpha_difference_matting.  The arrays are float32; a channel, a *)
(* difference of channels, its square and the sum of three squares are     *)
(* integers below 2^24, which float32 holds exactly.                       *)
(***************************************************************************)
\* bg_dist = math.sqrt(3 * 255 * 255), a float32 once it meets the array
bg_dist == F32Sqrt(3 * 255 * 255)

F32MaxByte == F32Exact(255, 0)

Max(a, b) == IF a >= b THEN a ELSE b

\* numpy's rule for one axis of two arrays
Broadcastable(a, b) == a = b \/ a = 1 \/ b = 1

\* element [y][x] of an array broadcast to a larger shape
At(arr, x, y) ==
    Pixel(arr, IF arr.w = 1 THEN 0 ELSE x, IF arr.h = 1 THEN 0 ELSE y)

\* SquaredDistance without the sum over axis 2: the red channel alone
SquaredDistanceOneChannel(wp, bp) == (wp[1] - bp[1]) * (wp[1] - bp[1])

\* np.sum(diff ** 2, axis=2) at one pixel
SquaredDistance(wp, bp) ==
    (wp[1] - bp[1]) * (wp[1] - bp[1]) + (wp[2] - bp[2]) * (wp[2] - bp[2])
        + (wp[3] - bp[3]) * (wp[3] - bp[3])

\* Alpha without the "1.0 -": the distance ratio taken for the opacity
AlphaInverted(wp, bp) ==
    F32Clip(F32Div(F32Sqrt(SquaredDistance(wp, bp)), bg_dist), F32One)

\* alpha = np.clip(1.0 - pixel_dist / bg_dist, 0, 1) at one pixel
Alpha(wp, bp) ==
    F32Clip(F32OneMinus(F32Div(F32Sqrt(SquaredDistance(wp, bp)), bg_dist)),
            F32One)

\* AlphaSafe with the guard taken for every pixel: the divisor is always 1.0
AlphaSafeAlwaysOne(alpha) == F32One

\* alpha_safe = np.where(alpha > 0.01, alpha, 1.0)
AlphaSafe(alpha) == IF F32Less(F32Hundredth, alpha) THEN alpha ELSE F32One

\* np.clip(black / alpha_safe, 0, 255).astype(np.uint8), one channel
Recovered(c, alpha) ==
    F32ToUint8(F32Clip(F32Div(F32Exact(c, 0), AlphaSafe(alpha)), F32MaxByte))

\* AlphaByte without the scaling by 255
AlphaByteUnscaled(alpha) == F32ToUint8(alpha)

\* (alpha * 255).astype(np.uint8)
AlphaByte(alpha) == F32ToUint8(F32Times255(alpha))

\* the RGBA pixel made of one pixel of each array
MattePixel(wp, bp) ==
    LET alpha == Alpha(wp, bp)
    IN  <<Recovered(bp[1], alpha), Recovered(bp[2], alpha),
          Recovered(bp[3], alpha), AlphaByte(alpha)>>

\* what numpy raises when the two shapes cannot be broadcast together
ValueError == [raised |-> "ValueError"]

extract_alpha_difference_matting(img_on_white, img_on_black) ==
    LET white_arr == ConvertRGB(img_on_white)
        black_arr == ConvertRGB(img_on_black)
    IN  IF ~(Broadcastable(white_arr.w, black_arr.w)
             /\ Broadcastable(white_arr.h, black_arr.h))
        THEN ValueError
        ELSE LET w == Max(white_arr.w, black_arr.w)
                 h == Max(white_arr.h, black_arr.h)
             IN  [mode |-> "RGBA", w |-> w, h |-> h,
                  px |-> [y \in 1..h |-> [x \in 1..w |->
                            MattePixel(At(white_arr, x - 1, y - 1),
                                       At(black_arr, x - 1, y - 1))]]]

(***************************************************************************)
(* The model provider.  A response is its sequence of parts; a part holds  *)
(* an image payload in inline_data, or None when it is text.  The provider *)
(* is free in what it answers; what it answered to the k-th request of a   *)
(* kind is kept in responses, and both controllers are given that answer.  *)
(***************************************************************************)
TextPart == [inline_data |-> None]
ImagePart(img) == [inline_data |-> img]

\* the payloads are decoded by Image.open; a payload is named by its image
OnWhite == WithPixel(Canvas("RGB", 3, 3, White), 1, 1, Subject)
OnWhiteRGBA ==
    WithPixel(Canvas("RGBA", 3, 3, White \o <<0>>), 1, 1, Subject \o <<255>>)
OnBlack == WithPixel(Canvas("RGB", 3, 3, Black), 1, 1, Subject)
OnGray == WithPixel(Canvas("RGB", 3, 3, Gray), 1, 1, Subject)
SmallBlack == Canvas("RGB", 1, 1, Black)
\* a black image whose 2x2 shape cannot be broadcast with 3x3
MisfitBlack == Canvas("RGB", 2, 2, Black)

WhiteResponses ==
    { <<>>, <<TextPart>>, <<ImagePart(OnWhite)>>,
      <<TextPart, ImagePart(OnWhiteRGBA)>> }

BlackResponses ==
    { <<TextPart>>, <<ImagePart(OnGray), ImagePart(OnBlack)>>,
      <<TextPart, ImagePart(OnBlack)>>, <<ImagePart(SmallBlack)>>,
      <<ImagePart(MisfitBlack)>> }

\* the answers the provider may give to the k-th request of a kind
Answers(kind, k) ==
    IF k <= Len(responses[kind]) THEN {responses[kind][k]}
    ELSE IF kind = "black" THEN BlackResponses
    ELSE WhiteResponses

Answered(kind, k, parts) ==
    IF k <= Len(responses[kind]) THEN responses
    ELSE [responses EXCEPT ![kind] = Append(@, parts)]

\* for part in response.parts: if part.inline_data is not None: ...; break
FirstImage(parts) ==
    IF \E i \in 1..Len(parts) : parts[i].inline_data # None
    THEN parts[CHOOSE i \in 1..Len(parts) :
                 /\ parts[i].inline_data # None
                 /\ \A j \in 1..(i - 1) : parts[j].inline_data = None].inline_data
    ELSE None

\* the calls a controller makes, as entries of its calls
GenerateCall(contents, modalities) ==
    [op |-> "generate_content", contents |-> contents,
     response_modalities |-> modalities]
CheckCall(image, result) ==
    [op |-> "background_is_black", image |-> image, result |-> result]
SleepCall == [op |-> "sleep", secs |-> 1]
MattingCall(white, black) ==
    [op |-> "extract_alpha_difference_matting", white |-> white, black |-> black]
PrintCall(file, text) == [op |-> "print", file |-> file, text |-> text]
SaveCall(image) == [op |-> "save", image |-> image]

\* a string and the values an f-string puts into it
Format(text, values) == [text |-> text, values |-> values]

RuntimeError(message) == [raised |-> "RuntimeError", message |-> message]

(***************************************************************************)
(* generate_transparent_image (transparency.py).                           *)
(***************************************************************************)
\* lines 129-145: the white render and the first image payload of its answer
LibWhiteRender ==
    /\ lib.pc = "white_render"
    /\ \E parts \in Answers("white", 1) :
         /\ responses' = Answered("white", 1, parts)
         /\ lib' = [lib EXCEPT
                      !.pc = "white_check",
                      !.img_on_white = FirstImage(parts),
                      !.calls = Append(@, GenerateCall(<<"white_prompt">>,
                                                       {"IMAGE"}))]
    /\ UNCHANGED <<cli, call, ret>>

\* LibWhiteCheck without the raise of line 148
LibWhiteCheckNoRaise ==
    /\ lib.pc = "white_check"
    /\ lib' = [lib EXCEPT !.pc = "loop", !.img_on_black = None]
    /\ UNCHANGED <<responses, cli, call, ret>>

\* lines 147-151
LibWhiteCheck ==
    /\ lib.pc = "white_check"
    /\ lib' = IF lib.img_on_white = None
              THEN [lib EXCEPT
                      !.pc = "raised",
                      !.outcome = RuntimeError(
                          Format("Failed to generate image on white background", <<>>))]
              ELSE [lib EXCEPT !.pc = "loop", !.img_on_black = None]
    /\ UNCHANGED <<responses, cli, call, ret>>

\* LibLoop over range(1, max_black_attempts): one attempt short
LibLoopShort ==
    /\ lib.pc = "loop"
    /\ lib' = IF lib.attempt + 1 < lib.max_black_attempts
              THEN [lib EXCEPT !.pc = "edit", !.attempt = @ + 1]
              ELSE [lib EXCEPT !.pc = "final_check"]
    /\ UNCHANGED <<responses, cli, call, ret>>

\* LibLoop as a loop that tests its bound after the first attempt only
LibLoopAtLeastOnce ==
    /\ lib.pc = "loop"
    /\ lib' = IF lib.attempt = 0 \/ lib.attempt + 1 <= lib.max_black_attempts
              THEN [lib EXCEPT !.pc = "edit", !.attempt = @ + 1]
              ELSE [lib EXCEPT !.pc = "final_check"]
    /\ UNCHANGED <<responses, cli, call, ret>>

\* line 152: for attempt in range(1, max_black_attempts + 1)
LibLoop ==
    /\ lib.pc = "loop"
    /\ lib' = IF lib.attempt + 1 <= lib.max_black_attempts
              THEN [lib EXCEPT !.pc = "edit", !.attempt = @ + 1]
              ELSE [lib EXCEPT !.pc = "final_check"]
    /\ UNCHANGED <<responses, cli, call, ret>>

\* LibEdit sending the last candidate, once there is one, instead of the
\* white image
LibEditFromCandidate ==
    /\ lib.pc = "edit"
    /\ \E parts \in Answers("black", lib.attempt) :
         /\ responses' = Answered("black", lib.attempt, parts)
         /\ lib' = [lib EXCEPT
                      !.pc = "validate",
                      !.img_on_black = IF FirstImage(parts) # None
                                       THEN FirstImage(parts) ELSE @,
                      !.calls = Append(@, GenerateCall(
                                    <<IF lib.img_on_black # None
                                      THEN lib.img_on_black
                                      ELSE lib.img_on_white, "black_prompt">>,
                                    {"TEXT", "IMAGE"}))]
    /\ UNCHANGED <<cli, call, ret>>

\* lines 153-177: the edit request; img_on_black is assigned only if the
\* answer holds an image payload
LibEdit ==
    /\ lib.pc = "edit"
    /\ \E parts \in Answers("black", lib.attempt) :
         /\ responses' = Answered("black", lib.attempt, parts)
         /\ lib' = [lib EXCEPT
                      !.pc = "validate",
                      !.img_on_black = IF FirstImage(parts) # None
                                       THEN FirstImage(parts) ELSE @,
                      !.calls = Append(@, GenerateCall(
                                    <<lib.img_on_white, "black_prompt">>,
                                    {"TEXT", "IMAGE"}))]
    /\ UNCHANGED <<cli, call, ret>>

\* LibValidate without the break of line 180
LibValidateNoBreak ==
    /\ lib.pc = "validate"
    /\ lib' = [lib EXCEPT !.pc = "backoff"]
    /\ UNCHANGED <<responses, cli, call, ret>>

\* lines 179-180
LibValidate ==
    /\ lib.pc = "validate"
    /\ lib' = IF lib.img_on_black = None
              THEN [lib EXCEPT !.pc = "backoff"]
              ELSE LET ok == background_is_black(lib.img_on_black,
                                                 DefaultThreshold)
                   IN  [lib EXCEPT
                          !.pc = IF ok THEN "final_check" ELSE "backoff",
                          !.calls = Append(@, CheckCall(lib.img_on_black, ok))]
    /\ UNCHANGED <<responses, cli, call, ret>>

\* LibBackoff giving up after the first failed attempt
LibBackoffGiveUp ==
    /\ lib.pc = "backoff"
    /\ lib' = [lib EXCEPT !.pc = "final_check"]
    /\ UNCHANGED <<responses, cli, call, ret>>

\* lines 182-183
LibBackoff ==
    /\ lib.pc = "backoff"
    /\ lib' = IF lib.attempt < lib.max_black_attempts
              THEN [lib EXCEPT !.pc = "loop", !.calls = Append(@, SleepCall)]
              ELSE [lib EXCEPT !.pc = "loop"]
    /\ UNCHANGED <<responses, cli, call, ret>>

\* LibFinalCheck without the validation of line 185: any image passes
LibFinalCheckUngated ==
    /\ lib.pc = "final_check"
    /\ lib' = IF lib.img_on_black = None
              THEN [lib EXCEPT
                      !.pc = "raised",
                      !.outcome = RuntimeError(
                          Format("Failed to convert to black background after retries", <<>>))]
              ELSE [lib EXCEPT !.pc = "matting"]
    /\ UNCHANGED <<responses, cli, call, ret>>

\* lines 185-186
LibFinalCheck ==
    /\ lib.pc = "final_check"
    /\ lib' = IF lib.img_on_black = None
              THEN [lib EXCEPT
                      !.pc = "raised",
                      !.outcome = RuntimeError(
                          Format("Failed to convert to black background after retries", <<>>))]
              ELSE LET ok == background_is_black(lib.img_on_black,
                                                 DefaultThreshold)
                   IN  [lib EXCEPT
                          !.pc = IF ok THEN "matting" ELSE "raised",
                          !.outcome = IF ok THEN @ ELSE RuntimeError(
                              Format("Failed to convert to black background after retries", <<>>)),
                          !.calls = Append(@, CheckCall(lib.img_on_black, ok))]
    /\ UNCHANGED <<responses, cli, call, ret>>

\* line 189
LibMatting ==
    /\ lib.pc = "matting"
    /\ LET final == extract_alpha_difference_matting(lib.img_on_white,
                                                     lib.img_on_black)
       IN  lib' = [lib EXCEPT
                     !.pc = IF final = ValueError THEN "raised" ELSE "returned",
                     !.outcome = final,
                     !.calls = Append(@, MattingCall(lib.img_on_white,
                                                     lib.img_on_black))]
    /\ UNCHANGED <<responses, cli, call, ret>>

(***************************************************************************)
(* main (generate.py).  sys.exit(1), an uncaught exception (exit status 1) *)
(* and the return from main (exit status 0) end the process.               *)
(***************************************************************************)
\* the attempts of the loop at line 107: range(1, 6)
CliAttempts == 5

Exit(code) == [code |-> code]

\* lines 46-51
CliCheckKey ==
    /\ cli.pc = "check_key"
    /\ cli' = IF cli.env.api_key
              THEN [cli EXCEPT !.pc = "import"]
              ELSE [cli EXCEPT
                      !.pc = "exited", !.exited = Exit(1),
                      !.calls = @ \o <<PrintCall("stderr", Format("Error: No API key found.", <<>>)),
                                       PrintCall("stderr", Format("Set GOOGLE_API_KEY in .env or export it directly.", <<>>)),
                                       PrintCall("stderr", Format("Get a key at: https://aistudio.google.com/apikey", <<>>))>>]
    /\ UNCHANGED <<responses, lib, call, ret>>

\* lines 54-66: google-genai and Pillow, then the branch on --transparent
CliImport ==
    /\ cli.pc = "import"
    /\ cli' = IF ~cli.env.dependencies
              THEN [cli EXCEPT
                      !.pc = "exited", !.exited = Exit(1),
                      !.calls = @ \o <<PrintCall("stderr", Format("Error: Missing dependency - {e}", <<"e">>)),
                                       PrintCall("stderr", Format("Install with: pip install google-genai Pillow numpy", <<>>))>>]
              ELSE IF cli.args.transparent
              THEN [cli EXCEPT !.pc = "import_transparency"]
              ELSE [cli EXCEPT !.pc = "simple_render"]
    /\ UNCHANGED <<responses, lib, call, ret>>

\* lines 68-75: without numpy both imports of transparency raise ImportError,
\* the second one uncaught
CliImportTransparency ==
    /\ cli.pc = "import_transparency"
    /\ cli' = IF cli.env.numpy
              THEN [cli EXCEPT !.pc = "white_render"]
              ELSE [cli EXCEPT !.pc = "exited", !.exited = Exit(1)]
    /\ UNCHANGED <<responses, lib, call, ret>>

\* lines 77-98
CliWhiteRender ==
    /\ cli.pc = "white_render"
    /\ \E parts \in Answers("white", 1) :
         /\ responses' = Answered("white", 1, parts)
         /\ cli' = [cli EXCEPT
                      !.pc = "white_check",
                      !.img_on_white = FirstImage(parts),
                      !.calls = @ \o <<PrintCall("stdout", Format("Generating transparent image: {args.prompt}", <<"prompt">>)),
                                       PrintCall("stdout", Format("Step 1/3: Generating on white background...", <<>>)),
                                       GenerateCall(<<"white_prompt">>, {"IMAGE"})>>]
    /\ UNCHANGED <<lib, call, ret>>

\* lines 100-106
CliWhiteCheck ==
    /\ cli.pc = "white_check"
    /\ cli' = IF cli.img_on_white = None
              THEN [cli EXCEPT
                      !.pc = "exited", !.exited = Exit(1),
                      !.calls = Append(@, PrintCall("stderr",
                          Format("Error: Failed to generate image on white background", <<>>)))]
              ELSE [cli EXCEPT
                      !.pc = "loop", !.img_on_black = None,
                      !.calls = Append(@, PrintCall("stdout",
                          Format("Step 2/3: Converting to black background...", <<>>)))]
    /\ UNCHANGED <<responses, lib, call, ret>>

\* CliLoop over range(1, 5): four attempts
CliLoopFour ==
    /\ cli.pc = "loop"
    /\ cli' = IF cli.attempt + 1 < CliAttempts
              THEN [cli EXCEPT !.pc = "edit", !.attempt = @ + 1]
              ELSE [cli EXCEPT !.pc = "final_check"]
    /\ UNCHANGED <<responses, lib, call, ret>>

\* line 107: for attempt in range(1, 6)
CliLoop ==
    /\ cli.pc = "loop"
    /\ cli' = IF cli.attempt + 1 <= CliAttempts
              THEN [cli EXCEPT !.pc = "edit", !.attempt = @ + 1]
              ELSE [cli EXCEPT !.pc = "final_check"]
    /\ UNCHANGED <<responses, lib, call, ret>>

\* lines 108-132
CliEdit ==
    /\ cli.pc = "edit"
    /\ \E parts \in Answers("black", cli.attempt) :
         /\ responses' = Answered("black", cli.attempt, parts)
         /\ cli' = [cli EXCEPT
                      !.pc = "validate",
                      !.img_on_black = IF FirstImage(parts) # None
                                       THEN FirstImage(parts) ELSE @,
                      !.calls = Append(@, GenerateCall(
                                    <<cli.img_on_white, "black_prompt">>,
                                    {"TEXT", "IMAGE"}))]
    /\ UNCHANGED <<lib, call, ret>>

\* lines 134-135
CliValidate ==
    /\ cli.pc = "validate"
    /\ cli' = IF cli.img_on_black = None
              THEN [cli EXCEPT !.pc = "retry"]
              ELSE LET ok == background_is_black(cli.img_on_black,
                                                 DefaultThreshold)
                   IN  [cli EXCEPT
                          !.pc = IF ok THEN "final_check" ELSE "retry",
                          !.calls = Append(@, CheckCall(cli.img_on_black, ok))]
    /\ UNCHANGED <<responses, lib, call, ret>>

\* line 137: the only statement between a failed attempt and the next one
CliRetry ==
    /\ cli.pc = "retry"
    /\ cli' = [cli EXCEPT
                 !.pc = "loop",
                 !.calls = Append(@, PrintCall("stdout",
                     Format("  Retry {attempt}/5 - background not black enough...",
                            <<cli.attempt>>)))]
    /\ UNCHANGED <<responses, lib, call, ret>>

\* lines 139-141
CliFinalCheck ==
    /\ cli.pc = "final_check"
    /\ cli' = IF cli.img_on_black = None
              THEN [cli EXCEPT
                      !.pc = "exited", !.exited = Exit(1),
                      !.calls = Append(@, PrintCall("stderr",
                          Format("Error: Failed to convert to black background", <<>>)))]
              ELSE LET ok == background_is_black(cli.img_on_black,
                                                 DefaultThreshold)
                   IN  IF ok
                       THEN [cli EXCEPT
                               !.pc = "matting",
                               !.calls = Append(@, CheckCall(cli.img_on_black, ok))]
                       ELSE [cli EXCEPT
                               !.pc = "exited", !.exited = Exit(1),
                               !.calls = @ \o <<CheckCall(cli.img_on_black, ok),
                                                PrintCall("stderr",
                                                    Format("Error: Failed to convert to black background", <<>>))>>]
    /\ UNCHANGED <<responses, lib, call, ret>>

\* lines 143-144; the ValueError of mismatched shapes is not caught
CliMatting ==
    /\ cli.pc = "matting"
    /\ LET final == extract_alpha_difference_matting(cli.img_on_white,
                                                     cli.img_on_black)
           called == cli.calls \o
                       <<PrintCall("stdout", Format("Step 3/3: Extracting transparency...", <<>>)),
                         MattingCall(cli.img_on_white, cli.img_on_black)>>
       IN  cli' = IF final = ValueError
                  THEN [cli EXCEPT !.pc = "exited", !.exited = Exit(1),
                                   !.calls = called]
                  ELSE [cli EXCEPT !.pc = "save", !.final_image = final,
                                   !.calls = called]
    /\ UNCHANGED <<responses, lib, call, ret>>

\* lines 148-166: generation without --transparent
CliSimpleRender ==
    /\ cli.pc = "simple_render"
    /\ \E parts \in Answers("simple", 1) :
         /\ responses' = Answered("simple", 1, parts)
         /\ cli' = [cli EXCEPT
                      !.pc = "simple_check",
                      !.final_image = FirstImage(parts),
                      !.calls = @ \o <<PrintCall("stdout", Format("Generating image: {args.prompt}", <<"prompt">>)),
                                       GenerateCall(<<"prompt">>, {"IMAGE"})>>]
    /\ UNCHANGED <<lib, call, ret>>

\* CliSimpleCheck without the exit of line 170
CliSimpleCheckNoExit ==
    /\ cli.pc = "simple_check"
    /\ cli' = [cli EXCEPT !.pc = "save"]
    /\ UNCHANGED <<responses, lib, call, ret>>

\* lines 168-170
CliSimpleCheck ==
    /\ cli.pc = "simple_check"
    /\ cli' = IF cli.final_image = None
              THEN [cli EXCEPT
                      !.pc = "exited", !.exited = Exit(1),
                      !.calls = Append(@, PrintCall("stderr",
                          Format("Error: Failed to generate image", <<>>)))]
              ELSE [cli EXCEPT !.pc = "save"]
    /\ UNCHANGED <<responses, lib, call, ret>>

\* lines 173-174, then main returns
CliSave ==
    /\ cli.pc = "save"
    /\ cli' = [cli EXCEPT
                 !.pc = "exited", !.exited = Exit(0),
                 !.output_file = cli.final_image,
                 !.calls = @ \o <<SaveCall(cli.final_image),
                                  PrintCall("stdout", Format("Saved: {args.output}", <<"output">>))>>]
    /\ UNCHANGED <<responses, lib, call, ret>>

(***************************************************************************)
(* A run is one call of generate_transparent_image or one run of main; the *)
(* controller that is not run stays idle.                                  *)
(***************************************************************************)
NoCall == [op |-> "none"]

LibLocals(pc, n) ==
    [pc |-> pc, max_black_attempts |-> n,
     img_on_white |-> None, img_on_black |-> None, attempt |-> 0,
     outcome |-> None, calls |-> <<>>]

CliLocals(pc, env, args) ==
    [pc |-> pc, env |-> env, args |-> args,
     img_on_white |-> None, img_on_black |-> None, attempt |-> 0,
     final_image |-> None, output_file |-> None, exited |-> None,
     calls |-> <<>>]

Environments == [api_key : BOOLEAN, dependencies : BOOLEAN, numpy : BOOLEAN]
Arguments == [transparent : BOOLEAN]

Init ==
    /\ responses = [white |-> <<>>, black |-> <<>>, simple |-> <<>>]
    /\ \/ /\ \E n \in (-1)..MaxBlackAttempts :
               lib = LibLocals("white_render", n)
          /\ cli = CliLocals("idle", [api_key |-> TRUE, dependencies |-> TRUE,
                                      numpy |-> TRUE], [transparent |-> TRUE])
       \/ /\ lib = LibLocals("idle", CliAttempts)
          /\ \E env \in Environments, args \in Arguments :
               cli = CliLocals("check_key", env, args)
    /\ call = NoCall
    /\ ret = None

\* the steps of a controller other than its call of matting
LibControl ==
    \/ LibWhiteRender \/ LibWhiteCheck \/ LibLoop \/ LibEdit \/ LibValidate
    \/ LibBackoff \/ LibFinalCheck

CliControl ==
    \/ CliCheckKey \/ CliImport \/ CliImportTransparency \/ CliWhiteRender
    \/ CliWhiteCheck \/ CliLoop \/ CliEdit \/ CliValidate \/ CliRetry
    \/ CliFinalCheck \/ CliSimpleRender \/ CliSimpleCheck \/ CliSave

Lib == LibControl \/ LibMatting

Cli == CliControl \/ CliMatting

Next == Lib \/ Cli

Spec == Init /\ [][Next]_vars

\* A controller is sequential code: it takes its next step as long as it has
\* one (every call of the provider is taken to return).  This is weak
\* fairness of Next; for the two calls of matting it is written with their
\* enabling condition MattingDue in the place of ENABLED, which spares the
\* evaluation of the matting of an image inside ENABLED.
MattingDue == lib.pc = "matting" \/ cli.pc = "matting"

LiveSpec ==
    /\ Spec
    /\ WF_vars(LibControl \/ CliControl)
    /\ []<>(~MattingDue) \/ []<><<LibMatting \/ CliMatting>>_vars

(***************************************************************************)
(* The two controllers side by side: generate_transparent_image with its   *)
(* default max_black_attempts = 5 and main with --transparent, in an       *)
(* environment that has the key and the dependencies.  They are separate   *)
(* runs, interleaved in any order, and the provider gives the k-th request *)
(* of a kind the same answer in both.                                      *)
(***************************************************************************)
\* line 101: max_black_attempts: int = 5
DefaultMaxBlackAttempts == 5

PairInit ==
    /\ responses = [white |-> <<>>, black |-> <<>>, simple |-> <<>>]
    /\ lib = LibLocals("white_render", DefaultMaxBlackAttempts)
    /\ cli = CliLocals("check_key", [api_key |-> TRUE, dependencies |-> TRUE,
                                     numpy |-> TRUE], [transparent |-> TRUE])
    /\ call = NoCall
    /\ ret = None

CliTransparent ==
    \/ CliCheckKey \/ CliImport \/ CliImportTransparency \/ CliWhiteRender
    \/ CliWhiteCheck \/ CliLoop \/ CliEdit \/ CliValidate \/ CliRetry
    \/ CliFinalCheck \/ CliMatting \/ CliSave

PairNext == Lib \/ CliTransparent

PairSpec == PairInit /\ [][PairNext]_vars

(***************************************************************************)
(* Direct calls of the two matting-engine functions, on inputs drawn from  *)
(* bounded sets.                                                           *)
(***************************************************************************)
Returned(value) == [value |-> value]

CheckPalette == {Black, Mean20, Sum61, Mean21, Gray, White}
MattePalette == {Black, White, Subject, Gray}

\* the 10x10 all-gray image of the spec's scenario
GrayScenario == Canvas("RGB", 10, 10, Gray)

Thresholds == {0, DefaultThreshold, 128}

CheckInputs ==
    OnePixelImages(CheckPalette) \cup {GrayScenario, OnWhiteRGBA}

\* solid canvases, and canvases whose first pixel is the subject
MattingInputs ==
    { Canvas("RGB", t[1], t[2], t[3]) :
        t \in (1..MaxDim) \X (1..MaxDim) \X MattePalette }
    \cup { WithPixel(Canvas("RGB", t[1], t[2], t[3]), 0, 0, Subject) :
             t \in (1..MaxDim) \X (1..MaxDim) \X {Black, White} }
    \cup {OnWhiteRGBA}

\* pairs <<pixel on white, pixel on black>>: a fully transparent and an
\* opaque pixel, distances around the 0.01 guard, opacities 0.8, 0.6 and
\* about 0.5 of one colour, a recovery that clips, black brighter than white
PixelCases ==
    { <<White, Black>>, <<Subject, Subject>>, <<Black, White>>,
      <<White, <<1, 1, 1>>>>, <<White, <<0, 0, 4>>>>, <<White, <<2, 2, 3>>>>,
      <<White, <<3, 3, 3>>>>,
      <<<<211, 91, 91>>, <<160, 40, 40>>>>,
      <<<<222, 162, 132>>, <<120, 60, 30>>>>,
      <<<<228, 153, 153>>, <<100, 25, 25>>>>,
      <<<<255, 200, 200>>, <<250, 10, 10>>>> }

\* a 2x1 image of two given pixels
PixelRow(p, q) == WithPixel(Canvas("RGB", 2, 1, p), 1, 0, q)

\* the matting inputs in pairs, the pixel cases in pairs, and each two
\* neighbouring grays of the ramp from black to white against white pixels
EngineCalls ==
    { [op |-> "background_is_black", image |-> i, threshold |-> t] :
        <<i, t>> \in CheckInputs \X Thresholds }
    \cup { [op |-> "extract_alpha_difference_matting",
            white |-> PixelRow(c[1][1], c[2][1]),
            black |-> PixelRow(c[1][2], c[2][2])] :
             c \in PixelCases \X PixelCases }
    \cup { [op |-> "extract_alpha_difference_matting",
            white |-> PixelRow(White, White),
            black |-> PixelRow(<<m, m, m>>, <<m + 1, m + 1, m + 1>>)] :
             m \in 0..254 }
    \cup { [op |-> "extract_alpha_difference_matting", white |-> w, black |-> b] :
             <<w, b>> \in MattingInputs \X MattingInputs }
    \cup { [op |-> "extract_alpha_difference_matting", white |-> i, black |-> i] :
             i \in CheckInputs }

EngineInit ==
    /\ responses = [white |-> <<>>, black |-> <<>>, simple |-> <<>>]
    /\ lib = LibLocals("idle", CliAttempts)
    /\ cli = CliLocals("idle", [api_key |-> TRUE, dependencies |-> TRUE,
                                numpy |-> TRUE], [transparent |-> TRUE])
    /\ call \in EngineCalls
    /\ ret = None

CallBackgroundIsBlack ==
    /\ call.op = "background_is_black"
    /\ ret = None
    /\ ret' = Returned(background_is_black(call.image, call.threshold))
    /\ UNCHANGED <<responses, lib, cli, call>>

CallExtractAlpha ==
    /\ call.op = "extract_alpha_difference_matting"
    /\ ret = None
    /\ ret' = Returned(extract_alpha_difference_matting(call.white, call.black))
    /\ UNCHANGED <<responses, lib, cli, call>>

EngineNext == CallBackgroundIsBlack \/ CallExtractAlpha

EngineSpec == EngineInit /\ [][EngineNext]_vars

(***************************************************************************)
(* What the claims speak of, read off a controller's calls and the         *)
(* provider's answers.                                                     *)
(***************************************************************************)
IsEdit(c) == c.op = "generate_content" /\ Len(c.contents) = 2
IsWhiteRequest(c) ==
    c.op = "generate_content" /\ Len(c.contents) = 1
        /\ c.contents[1] = "white_prompt"
IsMatting(c) == c.op = "extract_alpha_difference_matting"
IsSleep(c) == c.op = "sleep"

EditCount(p) == Cardinality({i \in DOMAIN p.calls : IsEdit(p.calls[i])})
WhiteCount(p) == Cardinality({i \in DOMAIN p.calls : IsWhiteRequest(p.calls[i])})
MattingCalls(p) == {i \in DOMAIN p.calls : IsMatting(p.calls[i])}

\* the image payload of the answer to the k-th edit request, or None
Payload(k) == FirstImage(responses.black[k])
Succeeded(k) ==
    Payload(k) # None /\ background_is_black(Payload(k), DefaultThreshold)

WhitePayload == FirstImage(responses.white[1])

\* the attempt budgets: a range(1, n + 1) with n < 0 is empty
LibBudget == Max(0, lib.max_black_attempts)
CliBudget == CliAttempts

BlackFailure(text) == Format(text, <<>>)

LibFailedWhite ==
    /\ lib.pc = "raised"
    /\ lib.outcome =
         RuntimeError(Format("Failed to generate image on white background", <<>>))
LibFailedBlack ==
    /\ lib.pc = "raised"
    /\ lib.outcome = RuntimeError(
         BlackFailure("Failed to convert to black background after retries"))

LastCall(p) == p.calls[Len(p.calls)]

CliFailedWhite ==
    /\ cli.pc = "exited" /\ cli.exited = Exit(1) /\ cli.calls # <<>>
    /\ LastCall(cli) = PrintCall("stderr",
         Format("Error: Failed to generate image on white background", <<>>))
CliFailedBlack ==
    /\ cli.pc = "exited" /\ cli.exited = Exit(1) /\ cli.calls # <<>>
    /\ LastCall(cli) = PrintCall("stderr",
         BlackFailure("Error: Failed to convert to black background"))

(***************************************************************************)
(* C1.  Matting is called only after the last edit request made was        *)
(* answered with an image payload on which background_is_black (threshold  *)
(* 20) holds, and the black image it is given is that payload, never the   *)
(* payload of an earlier, rejected attempt.                                *)
(***************************************************************************)
GateHolds(p) ==
    \A i \in MattingCalls(p) :
        LET k == EditCount(p)
        IN  /\ k >= 1
            /\ Succeeded(k)
            /\ p.calls[i].black = Payload(k)
            /\ \A j \in 1..(k - 1) :
                 /\ ~Succeeded(j)
                 /\ Payload(j) # None => p.calls[i].black # Payload(j)

C1_GateInvariant == GateHolds(lib) /\ GateHolds(cli)

\* matting after a rejected payload, an answer without payload and a success
C1_Witness ==
    /\ lib.pc = "returned" /\ MattingCalls(lib) # {}
    /\ EditCount(lib) = 3 /\ Payload(1) # None /\ Payload(2) = None

(***************************************************************************)
(* C2.  The black-background stage issues at most max_attempts edit        *)
(* requests (5 in main, max_black_attempts in generate_transparent_image,  *)
(* none when that is negative), and once an attempt returned a payload     *)
(* that passes background_is_black no further edit request is issued.      *)
(***************************************************************************)
StopsAtSuccess(p, budget) ==
    /\ EditCount(p) <= budget
    /\ \A k \in 1..EditCount(p) : Succeeded(k) => k = EditCount(p)

C2_BoundedAttempts ==
    StopsAtSuccess(lib, LibBudget) /\ StopsAtSuccess(cli, CliBudget)

\* a run that ended after a success at the second of five attempts
C2_Witness ==
    /\ lib.pc = "returned" /\ lib.max_black_attempts = 5
    /\ EditCount(lib) = 2 /\ Succeeded(2)

(***************************************************************************)
(* C3.  An answer without payload and a payload that fails                 *)
(* background_is_black each use up one attempt and nothing else; the       *)
(* controller ends in FailedBlack exactly when the white render succeeded, *)
(* all max_attempts edit requests were made and none succeeded, and then   *)
(* matting was never called.                                               *)
(***************************************************************************)
LibEnded == lib.pc \in {"raised", "returned"}
CliEnded == cli.pc = "exited"

AttemptsCounted(p) ==
    p.attempt = IF p.pc = "edit" THEN EditCount(p) + 1 ELSE EditCount(p)

Exhausted(p, budget) ==
    /\ WhiteCount(p) = 1 /\ WhitePayload # None
    /\ EditCount(p) = budget
    /\ \A k \in 1..budget : ~Succeeded(k)

FailsBlackWhenExhausted(p, budget, ended, failed) ==
    /\ AttemptsCounted(p)
    /\ failed => Exhausted(p, budget) /\ MattingCalls(p) = {}
    /\ ended /\ Exhausted(p, budget) => failed

C3_FailedBlackIffExhausted ==
    /\ FailsBlackWhenExhausted(lib, LibBudget, LibEnded, LibFailedBlack)
    /\ FailsBlackWhenExhausted(cli, CliBudget, CliEnded, CliFailedBlack)

\* FailedBlack after answers of both kinds
C3_Witness ==
    /\ LibFailedBlack /\ EditCount(lib) = 3
    /\ Payload(1) = None /\ Payload(2) # None /\ Payload(3) = None

(***************************************************************************)
(* C4.  The white-background stage issues one generation request and no    *)
(* second one; when its answer holds no image payload the controller ends  *)
(* in FailedWhite at once, with no edit request and no call of matting.    *)
(***************************************************************************)
WhiteStageOver(p) ==
    WhiteCount(p) = 1 /\ p.pc \notin {"white_render", "white_check"}

WhiteIsFatal(p, failed) ==
    /\ WhiteCount(p) <= 1
    /\ WhiteStageOver(p) /\ WhitePayload = None => failed
    /\ failed =>
         /\ WhiteCount(p) = 1 /\ WhitePayload = None
         /\ EditCount(p) = 0 /\ MattingCalls(p) = {}

C4_WhiteNotRetried ==
    WhiteIsFatal(lib, LibFailedWhite) /\ WhiteIsFatal(cli, CliFailedWhite)

C4_Witness == CliFailedWhite /\ WhiteCount(cli) = 1 /\ responses.white = <<<<TextPart>>>>

(***************************************************************************)
(* C5.  Retries carry no state but the attempt counter: the candidate      *)
(* black image validated after attempt k is attempt k's own payload, and   *)
(* there is none when attempt k's answer holds no image payload.           *)
(***************************************************************************)
CandidateIsOwnPayload(p) ==
    p.pc = "validate" => p.img_on_black = Payload(p.attempt)

C5_RetriesIndependent ==
    CandidateIsOwnPayload(lib) /\ CandidateIsOwnPayload(cli)

(***************************************************************************)
(* C6.  extract_alpha_difference_matting of two images of different width  *)
(* or height fails with a shape error and returns no image.                *)
(***************************************************************************)
C6_MismatchRejected ==
    /\ call.op = "extract_alpha_difference_matting"
    /\ ret # None
    /\ call.white.w # call.black.w \/ call.white.h # call.black.h
    => ret = Returned(ValueError)

(***************************************************************************)
(* C7.  In both controllers a wait separates every two successive edit     *)
(* requests, and every wait follows a failed attempt that is not the last  *)
(* one of the budget.                                                      *)
(***************************************************************************)
EditsBefore(p, m) == Cardinality({i \in 1..(m - 1) : IsEdit(p.calls[i])})

WaitsBetweenAttempts(p, budget) ==
    /\ \A i, j \in DOMAIN p.calls :
         i < j /\ IsEdit(p.calls[i]) /\ IsEdit(p.calls[j])
         => \E m \in (i + 1)..(j - 1) : IsSleep(p.calls[m])
    /\ \A m \in DOMAIN p.calls :
         IsSleep(p.calls[m]) =>
             /\ EditsBefore(p, m) \in 1..(budget - 1)
             /\ ~Succeeded(EditsBefore(p, m))
             /\ m > 1 /\ ~IsSleep(p.calls[m - 1])

C7_WaitBetweenAttempts ==
    WaitsBetweenAttempts(lib, LibBudget) /\ WaitsBetweenAttempts(cli, CliBudget)

(***************************************************************************)
(* C8.  When the black-background stage has used up its budget, the fatal  *)
(* outcome reported to the caller carries the number of attempts made.     *)
(***************************************************************************)
Carries(message, n) == \E i \in DOMAIN message.values : message.values[i] = n

C8_ReportCarriesAttempts ==
    /\ LibFailedBlack => Carries(lib.outcome.message, EditCount(lib))
    /\ CliFailedBlack => Carries(LastCall(cli).text, EditCount(cli))

(***************************************************************************)
(* C8, as amended.  When the black-background stage has used up its        *)
(* budget, max_attempts edit requests were made (none for a negative       *)
(* max_black_attempts), and the fatal outcome reported to the caller is a  *)
(* fixed text that does not carry that number: the message of the          *)
(* RuntimeError in the library, a line on stderr and exit status 1 in main.*)
(***************************************************************************)
BlackStageFailed(p, ended) ==
    /\ ended /\ WhiteCount(p) = 1 /\ WhitePayload # None
    /\ MattingCalls(p) = {}

C8_FixedReport ==
    /\ BlackStageFailed(lib, LibEnded) =>
         /\ EditCount(lib) = LibBudget
         /\ lib.outcome = RuntimeError(
              Format("Failed to convert to black background after retries", <<>>))
    /\ BlackStageFailed(cli, CliEnded) =>
         /\ EditCount(cli) = CliBudget
         /\ cli.exited = Exit(1)
         /\ LastCall(cli) = PrintCall("stderr",
              Format("Error: Failed to convert to black background", <<>>))

C8_Witness ==
    /\ BlackStageFailed(lib, LibEnded) /\ lib.max_black_attempts = 3
    /\ EditCount(lib) = 3

(***************************************************************************)
(* C9.  background_is_black(image, threshold) is true exactly when each of *)
(* the four corner pixels has r + g + b <= 3 * threshold, whatever the     *)
(* other pixels are.  At threshold 20 it is true of an all-black image,    *)
(* false of an all-white and of an all-gray one, true when the corners     *)
(* have mean 20 and false when a corner has mean 21.                       *)
(***************************************************************************)
Dark(img, x, y, t) ==
    img.px[y + 1][x + 1][1] + img.px[y + 1][x + 1][2] + img.px[y + 1][x + 1][3]
        <= 3 * t

Solid(img, c) ==
    \A y \in 1..img.h : \A x \in 1..img.w : SubSeq(img.px[y][x], 1, 3) = c

CornerPixels(img) ==
    { SubSeq(img.px[y][x], 1, 3) :
        <<x, y>> \in {1, img.w} \X {1, img.h} }

C9_CornersDecide ==
    call.op = "background_is_black" /\ ret # None =>
        LET img == call.image
            t == call.threshold
        IN  /\ ret.value = ( /\ Dark(img, 0, 0, t)
                             /\ Dark(img, img.w - 1, 0, t)
                             /\ Dark(img, 0, img.h - 1, t)
                             /\ Dark(img, img.w - 1, img.h - 1, t) )
            /\ t = 20 /\ Solid(img, Black) => ret.value
            /\ t = 20 /\ (Solid(img, White) \/ Solid(img, Gray)) => ~ret.value
            /\ t = 20 /\ CornerPixels(img) \subseteq {Black, Mean20} => ret.value
            /\ t = 20 /\ Mean21 \in CornerPixels(img) => ~ret.value

\* corners of mean exactly 20 around a white pixel that is no corner
C9_Witness ==
    /\ call.op = "background_is_black" /\ call.threshold = 20
    /\ call.image = WithPixel(Canvas("RGB", 3, 3, Mean20), 1, 1, White)
    /\ ret = Returned(TRUE)

(***************************************************************************)
(* C10.  extract_alpha_difference_matting(I, I) is an RGBA image of the    *)
(* size of I whose alpha is 255 and whose colour is that of I at every     *)
(* pixel.                                                                  *)
(***************************************************************************)
Opaque(img) ==
    [mode |-> "RGBA", w |-> img.w, h |-> img.h,
     px |-> [y \in 1..img.h |->
               [x \in 1..img.w |-> SubSeq(img.px[y][x], 1, 3) \o <<255>>]]]

C10_IdenticalInputsOpaque ==
    /\ call.op = "extract_alpha_difference_matting"
    /\ call.white = call.black
    /\ ret # None
    => ret = Returned(Opaque(call.white))

C10_Witness ==
    /\ call.op = "extract_alpha_difference_matting"
    /\ call.white = WithPixel(Canvas("RGB", 3, 2, Gray), 2, 1, Mean21)
    /\ call.black = call.white
    /\ ret # None /\ ret.value.px[2][3] = <<21, 21, 21, 255>>

(***************************************************************************)
(* C11.  extract_alpha_difference_matting works pixel by pixel: wherever   *)
(* the white image is (255,255,255) and the black image is (0,0,0) the     *)
(* output alpha is 0, whatever the other pixels are.  In the 2x2 scenario  *)
(* (a white and a black canvas with the same (200,50,50) pixel) the        *)
(* subject pixel comes out as (200,50,50) with alpha 255 and the other     *)
(* three pixels with alpha 0.                                              *)
(***************************************************************************)
IsImage(value) == value # None /\ value # ValueError

ScenarioOnWhite == WithPixel(Canvas("RGB", 2, 2, White), 0, 0, Subject)
ScenarioOnBlack == WithPixel(Canvas("RGB", 2, 2, Black), 0, 0, Subject)

C11_PixelByPixel ==
    /\ call.op = "extract_alpha_difference_matting"
    /\ ret # None
    /\ IsImage(ret.value)
    => LET out == ret.value
       IN  /\ \A y \in 1..out.h : \A x \in 1..out.w :
                 /\ At(ConvertRGB(call.white), x - 1, y - 1) = White
                 /\ At(ConvertRGB(call.black), x - 1, y - 1) = Black
                 => out.px[y][x][4] = 0
           /\ call.white = ScenarioOnWhite /\ call.black = ScenarioOnBlack
              => /\ out.w = 2 /\ out.h = 2
                 /\ out.px[1][1] = <<200, 50, 50, 255>>
                 /\ out.px[1][2][4] = 0
                 /\ out.px[2][1][4] = 0
                 /\ out.px[2][2][4] = 0

C11_Witness ==
    /\ call.op = "extract_alpha_difference_matting"
    /\ call.white = ScenarioOnWhite /\ call.black = ScenarioOnBlack
    /\ ret # None /\ IsImage(ret.value)
    /\ ret.value.px[1][1][4] = 255 /\ ret.value.px[2][2][4] = 0

(***************************************************************************)
(* C12.  Every pixel to which the division guard applies (alpha <= 0.01)   *)
(* is fully transparent in the output: its alpha byte is 0.                *)
(***************************************************************************)
GuardApplies(wp, bp) == ~F32Less(F32Hundredth, Alpha(wp, bp))

C12_GuardedIsTransparent ==
    /\ call.op = "extract_alpha_difference_matting"
    /\ ret # None
    /\ IsImage(ret.value)
    => \A y \in 1..ret.value.h : \A x \in 1..ret.value.w :
         GuardApplies(At(ConvertRGB(call.white), x - 1, y - 1),
                      At(ConvertRGB(call.black), x - 1, y - 1))
         => ret.value.px[y][x][4] = 0

(***************************************************************************)
(* C13.  Colour recovery.  With a = 1 - d/D the alpha estimate of a pixel  *)
(* and c a channel of its black-image colour: if a <= 0.01 the divisor is  *)
(* 1.0 and the output colour is the black-image colour unchanged; if       *)
(* a > 0.01 the output channel is min(255, c / a) truncated to a byte, up  *)
(* to one unit of float32 rounding, and c itself when a = 1.  The divisor  *)
(* is never zero and every output channel is in 0..255.                    *)
(***************************************************************************)
\* a * b for a < 2^16 and b < 2^18, as <<high, low>> in base 512
Wide(a, b) ==
    LET low == a * (b % 512)
    IN  <<a * (b \div 512) + low \div 512, low % 512>>

WideLeq(x, y) == x[1] < y[1] \/ (x[1] = y[1] /\ x[2] <= y[2])

\* D^2, the squared distance of white and black
DSquared == 3 * 255 * 255

\* a <= 0.01, that is d >= 0.99 * D, for a squared distance S
EstimateAtMostHundredth(S) == 10000 * S >= 9801 * DSquared

\* c / a >= k and c / a <= k for an integer k, a = 1 - sqrt(S) / D > 0:
\* (k - c) * D <= k * sqrt(S), and k * sqrt(S) <= (k - c) * D
QuotientAtLeast(c, S, k) ==
    k <= c \/ WideLeq(Wide((k - c) * (k - c), DSquared), Wide(k * k, S))
QuotientAtMost(c, S, k) ==
    k >= c /\ WideLeq(Wide(k * k, S), Wide((k - c) * (k - c), DSquared))

\* r is min(255, c / a) truncated, or one beside it
RecoveredFrom(r, c, S) ==
    /\ QuotientAtLeast(c, S, r - 1)
    /\ r + 2 >= 255 \/ QuotientAtMost(c, S, r + 2)

ColourRecovered(wp, bp, out) ==
    LET S == SquaredDistance(wp, bp)
    IN  /\ \A i \in 1..3 : out[i] \in 0..255
        /\ AlphaSafe(Alpha(wp, bp)) # F32Zero
        /\ IF EstimateAtMostHundredth(S) \/ S = 0
           THEN SubSeq(out, 1, 3) = bp
           ELSE \A i \in 1..3 : RecoveredFrom(out[i], bp[i], S)

C13_ColourRecovery ==
    /\ call.op = "extract_alpha_difference_matting"
    /\ ret # None
    /\ IsImage(ret.value)
    => \A y \in 1..ret.value.h : \A x \in 1..ret.value.w :
         ColourRecovered(At(ConvertRGB(call.white), x - 1, y - 1),
                         At(ConvertRGB(call.black), x - 1, y - 1),
                         ret.value.px[y][x])

\* a guarded pixel beside one just above the guard, whose recovery clips
C13_Witness ==
    /\ call.op = "extract_alpha_difference_matting"
    /\ call.white = PixelRow(White, <<222, 162, 132>>)
    /\ call.black = PixelRow(<<2, 2, 3>>, <<120, 60, 30>>)
    /\ ret # None /\ IsImage(ret.value)
    /\ SubSeq(ret.value.px[1][1], 1, 3) = <<2, 2, 3>>
    /\ SubSeq(ret.value.px[1][2], 1, 3) = <<200, 100, 50>>

(***************************************************************************)
(* C14.  The alpha byte decreases monotonically with the distance d of the *)
(* two colours of a pixel: of two pixels, the one with the smaller d has   *)
(* the alpha byte that is not smaller.  d = 0 gives 255, d = D gives 0,    *)
(* and in between the byte b is the linear value 255 * (1 - d/D) cut to a  *)
(* byte: b <= 255 * (1 - d/D) <= b + 1.  As D = 255 * sqrt(3), the linear  *)
(* value is 255 - sqrt(S/3) for the squared distance S.                    *)
(***************************************************************************)
LinearAlpha(S, b) ==
    /\ b \in 0..255
    /\ S <= 3 * (255 - b) * (255 - b)
    /\ b = 255 \/ S >= 3 * (254 - b) * (254 - b)
    /\ S = 0 => b = 255
    /\ S = DSquared => b = 0

DistanceAt(x, y) ==
    SquaredDistance(At(ConvertRGB(call.white), x - 1, y - 1),
                    At(ConvertRGB(call.black), x - 1, y - 1))

C14_AlphaMonotoneLinear ==
    /\ call.op = "extract_alpha_difference_matting"
    /\ ret # None
    /\ IsImage(ret.value)
    => LET out == ret.value
           at == (1..out.w) \X (1..out.h)
       IN  /\ \A p \in at : LinearAlpha(DistanceAt(p[1], p[2]),
                                         out.px[p[2]][p[1]][4])
           /\ \A p, q \in at :
                 DistanceAt(p[1], p[2]) <= DistanceAt(q[1], q[2])
                 => out.px[p[2]][p[1]][4] >= out.px[q[2]][q[1]][4]

\* two pixels of opacity 0.8 and 0.6
C14_Witness ==
    /\ call.op = "extract_alpha_difference_matting"
    /\ call.white = PixelRow(<<211, 91, 91>>, <<222, 162, 132>>)
    /\ call.black = PixelRow(<<160, 40, 40>>, <<120, 60, 30>>)
    /\ ret # None /\ IsImage(ret.value)
    /\ ret.value.px[1][1][4] = 203 /\ ret.value.px[1][2][4] = 152

(***************************************************************************)
(* C15.  main ends with exit status 1 on every fatal failure (no API key,  *)
(* a missing dependency, a white render without payload, no valid black    *)
(* image after the retries, a simple generation without payload) and with  *)
(* exit status 0 only on success; the output file is written only in a     *)
(* successful run, never on a fatal path.                                  *)
(***************************************************************************)
SaveCalls(p) == {i \in DOMAIN p.calls : p.calls[i].op = "save"}

\* the fatal failures of a run that has ended, read off its environment,
\* its arguments and the provider's answers
CliFatal ==
    \/ ~cli.env.api_key
    \/ ~cli.env.dependencies
    \/ /\ cli.args.transparent
       /\ \/ ~cli.env.numpy
          \/ WhitePayload = None
          \/ \A k \in 1..Len(responses.black) : ~Succeeded(k)
          \/ ~IsImage(extract_alpha_difference_matting(
                          WhitePayload, Payload(Len(responses.black))))
    \/ /\ ~cli.args.transparent
       /\ FirstImage(responses.simple[1]) = None

C15_ExitCodes ==
    /\ cli.output_file # None \/ SaveCalls(cli) # {}
       => CliEnded /\ cli.exited = Exit(0)
    /\ CliEnded =>
         /\ cli.exited = IF CliFatal THEN Exit(1) ELSE Exit(0)
         /\ cli.exited = Exit(0) =>
               /\ IsImage(cli.final_image)
               /\ cli.output_file = cli.final_image
               /\ Cardinality(SaveCalls(cli)) = 1
         /\ cli.exited = Exit(1) =>
               cli.output_file = None /\ SaveCalls(cli) = {}

\* exit status 1 after five failed attempts, and nothing saved
C15_Witness ==
    /\ CliEnded /\ cli.exited = Exit(1)
    /\ EditCount(cli) = 5 /\ cli.output_file = None

(***************************************************************************)
(* C16.  No edit request is issued before the white render was answered    *)
(* with an image payload; every edit request of a run carries that white   *)
(* image and the same fixed instruction text, with the modalities TEXT and *)
(* IMAGE; and the white image given to matting is that same payload.       *)
(***************************************************************************)
CarriesWhiteImage(p) ==
    /\ \A i \in DOMAIN p.calls :
         IsEdit(p.calls[i]) =>
             /\ \E j \in 1..(i - 1) : IsWhiteRequest(p.calls[j])
             /\ WhitePayload # None
             /\ p.calls[i] = GenerateCall(<<WhitePayload, "black_prompt">>,
                                          {"TEXT", "IMAGE"})
    /\ \A i \in MattingCalls(p) :
         /\ p.calls[i].white = WhitePayload
         /\ \E j \in 1..(i - 1) : IsEdit(p.calls[j])

C16_EditsCarryWhiteImage == CarriesWhiteImage(lib) /\ CarriesWhiteImage(cli)

\* matting after three edit requests, two of them answered with a payload
C16_Witness ==
    /\ cli.pc = "exited" /\ MattingCalls(cli) # {}
    /\ EditCount(cli) = 3 /\ Payload(1) # None /\ Payload(2) # None

(***************************************************************************)
(* C17.  For every sequence of provider answers and every value of         *)
(* max_black_attempts, zero and negative ones included, a call of          *)
(* generate_transparent_image ends, in exactly one of Done (matting was    *)
(* called), FailedWhite and FailedBlack, having made at most               *)
(* 1 + max(0, max_black_attempts) model requests; with                     *)
(* max_black_attempts <= 0 and a white render that returned a payload it   *)
(* makes no edit request and ends in FailedBlack.                          *)
(***************************************************************************)
LibDone == LibEnded /\ MattingCalls(lib) # {}

OneOf(a, b, c) == (a /\ ~b /\ ~c) \/ (~a /\ b /\ ~c) \/ (~a /\ ~b /\ c)

LibBounded ==
    /\ WhiteCount(lib) + EditCount(lib) <= 1 + LibBudget
    /\ LibEnded => OneOf(LibDone, LibFailedWhite, LibFailedBlack)
    /\ LibDone \/ LibFailedWhite \/ LibFailedBlack => LibEnded
    /\ /\ lib.max_black_attempts <= 0
       /\ WhiteStageOver(lib)
       /\ WhitePayload # None
       => /\ EditCount(lib) = 0
          /\ LibEnded => LibFailedBlack

C17_BoundedTermination ==
    /\ []LibBounded
    /\ (lib.pc # "idle") ~> LibEnded

\* FailedBlack without any edit request, for a negative budget
C17_Witness ==
    /\ lib.max_black_attempts = -1 /\ LibFailedBlack
    /\ EditCount(lib) = 0 /\ WhiteCount(lib) = 1 /\ WhitePayload # None

(***************************************************************************)
(* C18.  On the same provider answers, main --transparent and              *)
(* generate_transparent_image with max_black_attempts = 5 make the same    *)
(* sequence of model requests (at any moment the requests of one are a     *)
(* prefix of those of the other, and the same once both have ended) and    *)
(* end in corresponding outcomes: both in Done, with the same two images   *)
(* given to matting and the same result, both in FailedWhite, or both in   *)
(* FailedBlack; main reports a failure by exit status 1, the library by an *)
(* exception.                                                              *)
(***************************************************************************)
IsRequest(c) == c.op = "generate_content"
Requests(p) == SelectSeq(p.calls, IsRequest)
MattingsOf(p) == SelectSeq(p.calls, IsMatting)

IsPrefix(s, t) == Len(s) <= Len(t) /\ SubSeq(t, 1, Len(s)) = s

CliDone == CliEnded /\ MattingCalls(cli) # {}

C18_ControllersAgree ==
    /\ /\ lib.pc # "idle" /\ cli.pc # "idle"
       /\ lib.max_black_attempts = DefaultMaxBlackAttempts
       => \/ IsPrefix(Requests(lib), Requests(cli))
          \/ IsPrefix(Requests(cli), Requests(lib))
    /\ /\ LibEnded /\ CliEnded
       /\ lib.max_black_attempts = DefaultMaxBlackAttempts
       => /\ Requests(lib) = Requests(cli)
          /\ MattingsOf(lib) = MattingsOf(cli)
          /\ LibDone <=> CliDone
          /\ LibFailedWhite <=> CliFailedWhite
          /\ LibFailedBlack <=> CliFailedBlack
          /\ lib.pc = "returned" <=> cli.exited = Exit(0)
          /\ lib.pc = "returned" => cli.output_file = lib.outcome
          /\ lib.pc = "raised" <=> cli.exited = Exit(1)

\* both ended in Done at the third attempt
C18_Witness ==
    /\ lib.pc = "returned" /\ cli.exited = Exit(0)
    /\ EditCount(lib) = 3 /\ EditCount(cli) = 3
    /\ Len(MattingsOf(cli)) = 1

=============================================================================
